---- MODULE Spec2Model ----
(***************************************************************************)
(* A model of goque's PriorityQueue (src/pqueue.go): 256 FIFO levels kept  *)
(* as (head, tail) counters over a LevelDB key space, a cursor curLevel to *)
(* the level being served, and the recovery of both from the stored keys;  *)
(* of the goroutines that call it under its sync.RWMutex; and of the Stack *)
(* of the same file.                                                       *)
(***************************************************************************)
EXTENDS Integers, Sequences, FiniteSets, TLC

\* ------------------------------------------------------------------ bounds
\* Most ids the levels hand out together: Enqueue is disabled once the tails
\* of all levels sum to it.
MaxEnqueued == 3

\* Largest offset PeekByOffset is called with.
MaxOffset == 3

\* The goroutines that call the queue at the same time.
NumThreads == 2

\* Most ids the levels hand out together to the goroutines.
MaxConcurrent == 2

\* Most items enqueued over the life of a queue directory.
MaxLife == 2

\* Most Push calls that store an item.
MaxPushes == 3

\* ------------------------------------------------------- program constants
NumLevels == 256
ASC == 0
DESC == 1
prefixSep == 58

Levels == 0 .. (NumLevels - 1)

\* The priorities callers use: both ends of the table and one in between.
Priorities == {0, 1, NumLevels - 1}

\* The payloads callers write.
Values == {"a", "b"}

\* nil, for an item pointer and for a byte slice.
NoItem == [nil |-> TRUE]
NoValue == "nil"

\* error values
ErrNone == "nil"
ErrEmpty == "ErrEmpty"
ErrOutOfBounds == "ErrOutOfBounds"
ErrNotFound == "leveldb.ErrNotFound"
ErrStorage == "storage failure"
Errors == {ErrNone, ErrEmpty, ErrOutOfBounds, ErrNotFound, ErrStorage}

VARIABLES
    order,      \* pq.order, fixed at OpenPriorityQueue
    levels,     \* pq.levels: [Levels -> [head, tail]]
    curLevel,   \* pq.curLevel
    db,         \* the LevelDB contents: a function from stored keys to values
    last,       \* the last call made on the queue (and what a call that can change it returned)
    phase,      \* the enqueue-then-drain scenario: "enq", "deq" or "done"
    enqLog,     \* the items enqueued in the scenario, in call order
    deqLog,     \* the items dequeued in the scenario, in call order
    rw,         \* the queue's sync.RWMutex: the writer and the readers holding it
    threads,    \* each goroutine's position in the call it makes, and its locals
    stack,      \* a Stack: its head, its tail and its LevelDB contents
    stackLog    \* the Push and Pop calls made on the stack

scenario == <<phase, enqLog, deqLog>>
goroutines == <<rw, threads>>
stacks == <<stack, stackLog>>
vars == <<order, levels, curLevel, db, last, phase, enqLog, deqLog, rw, threads, stack, stackLog>>

\* The loops over the 256 levels act on the non-empty ones only: each is a
\* recursion over those levels that are left to visit, lowest first for
\* i := 0; i <= 255; i++ and highest first for i := 255; i >= 0; i--.
Lowest(visit) == CHOOSE m \in visit : \A o \in visit : m <= o

Highest(visit) == CHOOSE m \in visit : \A o \in visit : m >= o

\* ------------------------------------------------------------- key codec
RECURSIVE ByteOf(_, _)
ByteOf(n, k) == IF k = 0 THEN n % 256 ELSE ByteOf(n \div 256, k - 1)

\* id as 8 bytes, big endian
idToKey(id) == [i \in 1 .. 8 |-> ByteOf(id, 8 - i)]

RECURSIVE BigEndian(_, _)
BigEndian(bytes, n) ==
    IF n = 0 THEN 0 ELSE BigEndian(bytes, n - 1) * 256 + bytes[n]

keyToID(bytes) == BigEndian(bytes, Len(bytes))

\* generatePrefix without the level: every level writes under one prefix.
generatePrefix_NoLevel(level) == <<0, prefixSep>>

generatePrefix(level) == <<level % 256, prefixSep>>

generateKey(priority, id) == generatePrefix(priority) \o idToKey(id)

\* byte-lexicographic order of two keys of the same length
BytesLess(a, b) ==
    \E i \in 1 .. Len(a) :
        /\ a[i] < b[i]
        /\ \A j \in 1 .. (i - 1) : a[j] = b[j]

\* ------------------------------------------------------------- storage
dbPut(store, key, value) ==
    [k \in (DOMAIN store) \cup {key} |-> IF k = key THEN value ELSE store[k]]

dbDelete(store, key) == [k \in (DOMAIN store) \ {key} |-> store[k]]

\* fault = TRUE: the call fails (an I/O error, or the database is closed)
dbGet(store, key, fault) ==
    IF fault THEN [value |-> NoValue, err |-> ErrStorage]
    ELSE IF key \in DOMAIN store THEN [value |-> store[key], err |-> ErrNone]
    ELSE [value |-> NoValue, err |-> ErrNotFound]

\* util.BytesPrefix(prefix): the stored keys that start with prefix
PrefixKeys(store, prefix) ==
    {k \in DOMAIN store : SubSeq(k, 1, Len(prefix)) = prefix}

iterFirst(keys) == CHOOSE k \in keys : \A o \in keys \ {k} : BytesLess(k, o)

iterLast(keys) == CHOOSE k \in keys : \A o \in keys \ {k} : BytesLess(o, k)

\* ------------------------------------------------------------- helpers
length(pl) == pl.tail - pl.head

NonEmpty(lv) == {i \in Levels : length(lv[i]) > 0}

\* the loop of Length over the levels left to visit (a level of length 0
\* adds nothing)
RECURSIVE SumLengths(_, _)
SumLengths(lv, visit) ==
    IF visit = {} THEN 0
    ELSE LET i == Lowest(visit)
         IN  length(lv[i]) + SumLengths(lv, visit \ {i})

Length(lv) == SumLengths(lv, NonEmpty(lv))

\* cmpAsc with the comparison turned round.
cmpAsc_Swapped(ord, cur, priority) == ord = ASC /\ priority > cur

cmpAsc(ord, cur, priority) == ord = ASC /\ priority < cur

cmpDesc(ord, cur, priority) == ord = DESC /\ priority > cur

\* resetCurrentLevel with the two extremes swapped.
resetCurrentLevel_Swapped(ord, cur) ==
    IF ord = ASC THEN 0 ELSE IF ord = DESC THEN NumLevels - 1 ELSE cur

resetCurrentLevel(ord, cur) ==
    IF ord = ASC THEN NumLevels - 1 ELSE IF ord = DESC THEN 0 ELSE cur

getItemByPriorityID(lv, store, priority, id, fault) ==
    IF length(lv[priority]) = 0 THEN [item |-> NoItem, err |-> ErrEmpty]
    ELSE IF id <= lv[priority].head \/ id > lv[priority].tail
        THEN [item |-> NoItem, err |-> ErrOutOfBounds]
    ELSE LET key == generateKey(priority, id)
             got == dbGet(store, key, fault)
         IN  [item |-> [ID |-> id, Priority |-> priority, Key |-> key, Value |-> got.value],
              err |-> got.err]

\* the loop of getNextItem and of init over the levels left to visit (the
\* levels that hold items): the cursor it ends on
RECURSIVE CursorScan(_, _, _)
CursorScan(ord, cur, visit) ==
    IF visit = {} THEN cur
    ELSE LET i == Lowest(visit)
         IN  CursorScan(ord,
                        IF cmpAsc(ord, cur, i) \/ cmpDesc(ord, cur, i) THEN i ELSE cur,
                        visit \ {i})

NextLevelScan(ord, lv, cur) == CursorScan(ord, cur, NonEmpty(lv))

\* the result and the cursor getNextItem leaves
getNextItem(ord, lv, cur, store, fault) ==
    IF length(lv[cur]) = 0
    THEN LET c == NextLevelScan(ord, lv, resetCurrentLevel(ord, cur))
         IN  IF length(lv[c]) = 0
             THEN [cur |-> c, item |-> NoItem, err |-> ErrEmpty]
             ELSE [cur |-> c] @@ getItemByPriorityID(lv, store, c, lv[c].head + 1, fault)
    ELSE [cur |-> cur] @@ getItemByPriorityID(lv, store, cur, lv[cur].head + 1, fault)

\* pq.levels[pq.curLevel].length()-1 >= offset on uint64: at length 0 the
\* subtraction wraps to 2^64-1, which every offset is below.
WithinLevel(len, offset) == IF len = 0 THEN TRUE ELSE len - 1 >= offset

\* One iteration of the loop of findOffsetAsc and findOffsetDesc at a level i
\* that passed the loop's test: s holds the locals length and priority,
\* and the value returned once the loop has returned.
findOffsetVisit(lv, store, offset, fault, s, i) ==
    LET newLength == length(lv[i]) - 1
    IN  IF s.length + newLength >= offset
        THEN [s EXCEPT !.returned = TRUE,
                       !.priority = i,
                       !.result = getItemByPriorityID(lv, store, i, offset - s.length + 1, fault)]
        ELSE [s EXCEPT !.priority = i, !.length = s.length + newLength + 1]

findOffsetStart(cur) ==
    [returned |-> FALSE, result |-> [item |-> NoItem, err |-> ErrOutOfBounds],
     length |-> 0, priority |-> cur]

RECURSIVE findOffsetAscLoop(_, _, _, _, _, _)
findOffsetAscLoop(lv, store, offset, fault, s, visit) ==
    IF visit = {} \/ s.returned THEN s
    ELSE LET i == Lowest(visit)
         IN  findOffsetAscLoop(lv, store, offset, fault,
                               IF i >= s.priority
                               THEN findOffsetVisit(lv, store, offset, fault, s, i) ELSE s,
                               visit \ {i})

findOffsetAsc(lv, cur, store, offset, fault) ==
    findOffsetAscLoop(lv, store, offset, fault, findOffsetStart(cur), NonEmpty(lv)).result

RECURSIVE findOffsetDescLoop(_, _, _, _, _, _)
findOffsetDescLoop(lv, store, offset, fault, s, visit) ==
    IF visit = {} \/ s.returned THEN s
    ELSE LET i == Highest(visit)
         IN  findOffsetDescLoop(lv, store, offset, fault,
                                IF i <= s.priority
                                THEN findOffsetVisit(lv, store, offset, fault, s, i) ELSE s,
                                visit \ {i})

findOffsetDesc(lv, cur, store, offset, fault) ==
    findOffsetDescLoop(lv, store, offset, fault, findOffsetStart(cur), NonEmpty(lv)).result

PeekByOffsetFn(ord, lv, cur, store, offset, fault) ==
    IF WithinLevel(length(lv[cur]), offset)
    THEN getItemByPriorityID(lv, store, cur, lv[cur].head + offset + 1, fault)
    ELSE IF ord = ASC THEN findOffsetAsc(lv, cur, store, offset, fault)
    ELSE IF ord = DESC THEN findOffsetDesc(lv, cur, store, offset, fault)
    ELSE [item |-> NoItem, err |-> ErrNone]

\* ------------------------------------------------ the mutating operations
\* Each returns the queue it leaves (levels, curLevel, db) and what the caller
\* gets (item, err).

\* Enqueue that never moves the cursor to a more important level.
EnqueueFn_NoPreempt(ord, lv, cur, store, priority, value, fault) ==
    LET id == lv[priority].tail + 1
        key == generateKey(priority, id)
        item == [ID |-> id, Priority |-> priority, Key |-> key, Value |-> value]
    IN  IF fault
        THEN [levels |-> lv, curLevel |-> cur, db |-> store, item |-> item, err |-> ErrStorage]
        ELSE [levels |-> [lv EXCEPT ![priority].tail = @ + 1],
              curLevel |-> cur,
              db |-> dbPut(store, key, value),
              item |-> item,
              err |-> ErrNone]

\* Enqueue that advances the tail whether the put worked or not.
EnqueueFn_TailOnFailure(ord, lv, cur, store, priority, value, fault) ==
    LET id == lv[priority].tail + 1
        key == generateKey(priority, id)
        item == [ID |-> id, Priority |-> priority, Key |-> key, Value |-> value]
    IN  [levels |-> [lv EXCEPT ![priority].tail = @ + 1],
         curLevel |-> IF cmpAsc(ord, cur, priority) \/ cmpDesc(ord, cur, priority)
                      THEN priority ELSE cur,
         db |-> IF fault THEN store ELSE dbPut(store, key, value),
         item |-> item,
         err |-> IF fault THEN ErrStorage ELSE ErrNone]

EnqueueFn(ord, lv, cur, store, priority, value, fault) ==
    LET level == lv[priority]
        id == level.tail + 1
        key == generateKey(priority, id)
        item == [ID |-> id, Priority |-> priority, Key |-> key, Value |-> value]
    IN  IF fault
        THEN [levels |-> lv, curLevel |-> cur, db |-> store, item |-> item, err |-> ErrStorage]
        ELSE [levels |-> [lv EXCEPT ![priority].tail = @ + 1],
              curLevel |-> IF cmpAsc(ord, cur, priority) \/ cmpDesc(ord, cur, priority)
                           THEN priority ELSE cur,
              db |-> dbPut(store, key, value),
              item |-> item,
              err |-> ErrNone]

\* Dequeue that advances the head whether the delete worked or not.
DequeueFn_HeadOnFailure(ord, lv, cur, store, getFault, delFault) ==
    LET nxt == getNextItem(ord, lv, cur, store, getFault)
    IN  IF nxt.err # ErrNone
        THEN [levels |-> lv, curLevel |-> nxt.cur, db |-> store, item |-> nxt.item, err |-> nxt.err]
        ELSE [levels |-> [lv EXCEPT ![nxt.cur].head = @ + 1],
              curLevel |-> nxt.cur,
              db |-> IF delFault THEN store ELSE dbDelete(store, nxt.item.Key),
              item |-> nxt.item,
              err |-> IF delFault THEN ErrStorage ELSE ErrNone]

DequeueFn(ord, lv, cur, store, getFault, delFault) ==
    LET nxt == getNextItem(ord, lv, cur, store, getFault)
    IN  IF nxt.err # ErrNone
        THEN [levels |-> lv, curLevel |-> nxt.cur, db |-> store, item |-> nxt.item, err |-> nxt.err]
        ELSE IF delFault
        THEN [levels |-> lv, curLevel |-> nxt.cur, db |-> store, item |-> nxt.item, err |-> ErrStorage]
        ELSE [levels |-> [lv EXCEPT ![nxt.cur].head = @ + 1],
              curLevel |-> nxt.cur,
              db |-> dbDelete(store, nxt.item.Key),
              item |-> nxt.item,
              err |-> ErrNone]

\* DequeueByPriority that advances the head of the level under the cursor.
DequeueByPriorityFn_CursorHead(lv, cur, store, priority, getFault, delFault) ==
    LET got == getItemByPriorityID(lv, store, priority, lv[priority].head + 1, getFault)
    IN  IF got.err # ErrNone
        THEN [levels |-> lv, curLevel |-> cur, db |-> store, item |-> got.item, err |-> got.err]
        ELSE IF delFault
        THEN [levels |-> lv, curLevel |-> cur, db |-> store, item |-> got.item, err |-> ErrStorage]
        ELSE [levels |-> [lv EXCEPT ![cur].head = @ + 1],
              curLevel |-> cur,
              db |-> dbDelete(store, got.item.Key),
              item |-> got.item,
              err |-> ErrNone]

DequeueByPriorityFn(lv, cur, store, priority, getFault, delFault) ==
    LET got == getItemByPriorityID(lv, store, priority, lv[priority].head + 1, getFault)
    IN  IF got.err # ErrNone
        THEN [levels |-> lv, curLevel |-> cur, db |-> store, item |-> got.item, err |-> got.err]
        ELSE IF delFault
        THEN [levels |-> lv, curLevel |-> cur, db |-> store, item |-> got.item, err |-> ErrStorage]
        ELSE [levels |-> [lv EXCEPT ![priority].head = @ + 1],
              curLevel |-> cur,
              db |-> dbDelete(store, got.item.Key),
              item |-> got.item,
              err |-> ErrNone]

\* Update that stores the value the item came with.
UpdateFn_OldValue(store, item, newValue, fault) ==
    IF fault
    THEN [db |-> store, item |-> item, err |-> ErrStorage]
    ELSE [db |-> dbPut(store, item.Key, item.Value), item |-> item, err |-> ErrNone]

UpdateFn(store, item, newValue, fault) ==
    IF fault
    THEN [db |-> store, item |-> [item EXCEPT !.Value = newValue], err |-> ErrStorage]
    ELSE [db |-> dbPut(store, item.Key, newValue),
          item |-> [item EXCEPT !.Value = newValue],
          err |-> ErrNone]

\* init that takes the first stored id for the head.
initLevel_HeadAtFirst(store, i) ==
    LET keys == PrefixKeys(store, generatePrefix(i))
    IN  IF keys = {} THEN [head |-> 0, tail |-> 0]
        ELSE [head |-> keyToID(SubSeq(iterFirst(keys), 3, 10)),
              tail |-> keyToID(SubSeq(iterLast(keys), 3, 10))]

\* ---------------------------------------------------------------- recovery
\* the priorityLevel init builds for level i
initLevel(store, i) ==
    LET keys == PrefixKeys(store, generatePrefix(i))
    IN  IF keys = {} THEN [head |-> 0, tail |-> 0]
        ELSE [head |-> keyToID(SubSeq(iterFirst(keys), 3, 10)) - 1,
              tail |-> keyToID(SubSeq(iterLast(keys), 3, 10))]

\* init that leaves the cursor where resetCurrentLevel put it.
init_CursorAtReset(ord, store) ==
    [levels |-> [i \in Levels |-> initLevel(store, i)],
     curLevel |-> resetCurrentLevel(ord, 0)]

\* init: the levels and the cursor it leaves
init(ord, store) ==
    LET \* the levels where iter.First() finds a key
        stored == {i \in Levels : PrefixKeys(store, generatePrefix(i)) # {}}
    IN  [levels |-> [i \in Levels |-> initLevel(store, i)],
         curLevel |-> CursorScan(ord, resetCurrentLevel(ord, 0), stored)]

\* ------------------------------------------------------------------ state
Empty == [k \in {} |-> NoValue]

Threads == 1 .. NumThreads

\* a goroutine that is in no call
Idle == [pc |-> "idle"]

\* the zero sync.RWMutex: 0 for no writer
Unlocked == [writer |-> 0, readers |-> {}]

\* Stack.init: the head and the tail it takes from the stored keys
stackInit(store) ==
    [head |-> IF DOMAIN store = {} THEN 0 ELSE keyToID(iterLast(DOMAIN store)),
     tail |-> IF DOMAIN store = {} THEN 0 ELSE keyToID(iterFirst(DOMAIN store)) - 1,
     db |-> store]

Opened == [op |-> "Open", arg |-> <<>>, item |-> NoItem, err |-> ErrNone]

\* no Push and no Pop made yet: live holds the items pushed and not popped,
\* oldest first, pushes and pops count the calls that succeeded
NoCalls == [live |-> <<>>, pushes |-> 0, pops |-> 0, last |-> Opened]

\* OpenPriorityQueue on a new directory, in either order, with no goroutine
\* in a call; and OpenStack on a new directory
Init ==
    /\ order \in {ASC, DESC}
    /\ db = Empty
    /\ levels = init(order, db).levels
    /\ curLevel = init(order, db).curLevel
    /\ last = Opened
    /\ phase = "enq"
    /\ enqLog = <<>>
    /\ deqLog = <<>>
    /\ rw = Unlocked
    /\ threads = [t \in Threads |-> Idle]
    /\ stack = stackInit(Empty)
    /\ stackLog = NoCalls

\* What a storage call may do: work (FALSE) or fail (TRUE).
Faults == {FALSE, TRUE}

\* What the storage may do to a call that reads an item and then deletes it:
\* serve both, fail the read, or serve the read and fail the delete.
ReadDeleteFaults == {"none", "get", "delete"}

RECURSIVE TailSum(_)
TailSum(ps) ==
    IF ps = {} THEN 0
    ELSE LET p == CHOOSE q \in ps : TRUE IN levels[p].tail + TailSum(ps \ {p})

\* ---------------------------------------------------------------- the calls
EnqueueCall(priority, value, fault) ==
    LET r == EnqueueFn(order, levels, curLevel, db, priority, value, fault)
    IN  /\ TailSum(Priorities) < MaxEnqueued
        /\ levels' = r.levels
        /\ curLevel' = r.curLevel
        /\ db' = r.db
        /\ last' = [op |-> "Enqueue", arg |-> <<priority, value>>, item |-> r.item, err |-> r.err]
        /\ UNCHANGED order

DequeueCall(getFault, delFault) ==
    LET r == DequeueFn(order, levels, curLevel, db, getFault, delFault)
    IN  /\ levels' = r.levels
        /\ curLevel' = r.curLevel
        /\ db' = r.db
        /\ last' = [op |-> "Dequeue", arg |-> <<>>, item |-> r.item, err |-> r.err]
        /\ UNCHANGED order

Enqueue ==
    /\ \E priority \in Priorities, value \in Values, fault \in Faults :
            EnqueueCall(priority, value, fault)
    /\ UNCHANGED <<scenario, goroutines, stacks>>

Dequeue ==
    /\ \E fault \in ReadDeleteFaults : DequeueCall(fault = "get", fault = "delete")
    /\ UNCHANGED <<scenario, goroutines, stacks>>

DequeueByPriority ==
    /\ \E priority \in Priorities, fault \in ReadDeleteFaults :
        LET r == DequeueByPriorityFn(levels, curLevel, db, priority,
                                     fault = "get", fault = "delete")
        IN  /\ levels' = r.levels
            /\ curLevel' = r.curLevel
            /\ db' = r.db
            /\ last' = [op |-> "DequeueByPriority", arg |-> <<priority>>,
                        item |-> r.item, err |-> r.err]
    /\ UNCHANGED <<order, scenario, goroutines, stacks>>

\* Peek that steps over the item it returns, as Dequeue does.
Peek_AdvancesHead ==
    /\ \E fault \in Faults :
        LET r == getNextItem(order, levels, curLevel, db, fault)
        IN  /\ curLevel' = r.cur
            /\ levels' = IF r.err = ErrNone THEN [levels EXCEPT ![r.cur].head = @ + 1]
                          ELSE levels
            /\ last' = [op |-> "Peek", arg |-> <<>>, item |-> r.item, err |-> r.err]
    /\ UNCHANGED <<order, db, scenario, goroutines, stacks>>

\* Peek moves the cursor as getNextItem does.
Peek ==
    /\ \E fault \in Faults :
        LET r == getNextItem(order, levels, curLevel, db, fault)
        IN  /\ curLevel' = r.cur
            /\ last' = [op |-> "Peek", arg |-> <<>>, item |-> r.item, err |-> r.err]
    /\ UNCHANGED <<order, levels, db, scenario, goroutines, stacks>>

\* PeekByOffset and PeekByPriorityID write no field of the queue: last keeps
\* the call's name only, and what they return is PeekByOffsetFn and
\* getItemByPriorityID of the state, an item or one of Errors.
PeekByOffset ==
    /\ \A offset \in 0 .. MaxOffset, fault \in Faults :
        PeekByOffsetFn(order, levels, curLevel, db, offset, fault).err \in Errors
    /\ last' = [op |-> "PeekByOffset", arg |-> <<>>, item |-> NoItem, err |-> ErrNone]
    /\ UNCHANGED <<order, levels, curLevel, db, scenario, goroutines, stacks>>

PeekByPriorityID ==
    /\ \A priority \in Priorities, id \in 0 .. (MaxEnqueued + 1), fault \in Faults :
        getItemByPriorityID(levels, db, priority, id, fault).err \in Errors
    /\ last' = [op |-> "PeekByPriorityID", arg |-> <<>>, item |-> NoItem, err |-> ErrNone]
    /\ UNCHANGED <<order, levels, curLevel, db, scenario, goroutines, stacks>>

\* An item as the queue hands it to a caller.
Item(priority, id, value) ==
    [ID |-> id, Priority |-> priority, Key |-> generateKey(priority, id), Value |-> value]

UpdateCall(item, newValue, fault) ==
    LET r == UpdateFn(db, item, newValue, fault)
    IN  /\ db' = r.db
        /\ last' = [op |-> "Update", arg |-> <<item.Priority, item.ID, newValue>>,
                    item |-> r.item, err |-> r.err]
        /\ UNCHANGED <<order, levels, curLevel, scenario, goroutines, stacks>>

InQueue(priority, id) ==
    /\ id > levels[priority].head
    /\ id <= levels[priority].tail
    /\ generateKey(priority, id) \in DOMAIN db

\* Update of an item that is in the queue, as a Peek or an Enqueue returned it
Update ==
    \E priority \in Priorities, id \in 1 .. MaxEnqueued, newValue \in Values, fault \in Faults :
        /\ InQueue(priority, id)
        /\ UpdateCall(Item(priority, id, db[generateKey(priority, id)]), newValue, fault)

\* Update of an item that has left the queue: the item the last Dequeue or
\* DequeueByPriority returned to the caller.
UpdateStale ==
    /\ last.op \in {"Dequeue", "DequeueByPriority"}
    /\ last.err = ErrNone
    /\ \E newValue \in Values, fault \in Faults : UpdateCall(last.item, newValue, fault)

\* Close, then OpenPriorityQueue on the same directory in the same order
Reopen ==
    LET r == init(order, db)
    IN  /\ levels' = r.levels
        /\ curLevel' = r.curLevel
        /\ last' = Opened
        /\ UNCHANGED <<order, db, scenario, goroutines, stacks>>

\* The queue used as documented: Update is given items that are in the queue.
Next ==
    \/ Enqueue
    \/ Dequeue
    \/ DequeueByPriority
    \/ Peek
    \/ PeekByOffset
    \/ PeekByPriorityID
    \/ Update
    \/ Reopen

Spec == Init /\ [][Next]_vars

\* The queue with Update also given items that have left it.
NextStale ==
    \/ Enqueue
    \/ Dequeue
    \/ DequeueByPriority
    \/ Update
    \/ UpdateStale

SpecStale == Init /\ [][NextStale]_vars

\* ------------------------------------------- enqueue, then drain (scenario)
\* Enqueue calls, then Dequeue calls until the queue is empty, with the
\* storage working; then again, on the queue the drain leaves.
ScenarioEnqueue ==
    /\ phase = "enq"
    /\ \E priority \in Priorities, value \in Values : EnqueueCall(priority, value, FALSE)
    /\ enqLog' = Append(enqLog, last'.item)
    /\ UNCHANGED <<phase, deqLog, goroutines, stacks>>

ScenarioDequeue ==
    /\ phase \in {"enq", "deq"}
    /\ DequeueCall(FALSE, FALSE)
    /\ IF last'.err = ErrNone
       THEN deqLog' = Append(deqLog, last'.item) /\ phase' = "deq"
       ELSE deqLog' = deqLog /\ phase' = "done"
    /\ UNCHANGED <<enqLog, goroutines, stacks>>

ScenarioRestart ==
    /\ phase = "done"
    /\ phase' = "enq"
    /\ enqLog' = <<>>
    /\ deqLog' = <<>>
    /\ UNCHANGED <<order, levels, curLevel, db, last, goroutines, stacks>>

NextFIFO ==
    \/ ScenarioEnqueue
    \/ ScenarioDequeue
    \/ ScenarioRestart

SpecFIFO == Init /\ [][NextFIFO]_vars

\* ------------------------------------------ the life of a queue directory
\* Enqueue, Dequeue and DequeueByPriority calls with the queue closed and
\* reopened between them; enqLog holds the items the successful Enqueue calls
\* returned since the directory was created.
LoggedEnqueue ==
    /\ Len(enqLog) < MaxLife
    /\ \E priority \in Priorities, value \in Values, fault \in Faults :
            EnqueueCall(priority, value, fault)
    /\ enqLog' = IF last'.err = ErrNone THEN Append(enqLog, last'.item) ELSE enqLog
    /\ UNCHANGED <<phase, deqLog, goroutines, stacks>>

NextLife ==
    \/ LoggedEnqueue
    \/ Dequeue
    \/ DequeueByPriority
    \/ Reopen

SpecLife == Init /\ [][NextLife]_vars

\* ------------------------------------------------------------------ Stack
\* s is a Stack: [head, tail, db].
stackLength(s) == s.head - s.tail

stackItem(id, value) == [ID |-> id, Key |-> idToKey(id), Value |-> value]

\* Stack.getItemByID
getItemByID(s, id, fault) ==
    IF stackLength(s) = 0 THEN [item |-> NoItem, err |-> ErrEmpty]
    ELSE IF id <= s.tail \/ id > s.head THEN [item |-> NoItem, err |-> ErrOutOfBounds]
    ELSE LET got == dbGet(s.db, idToKey(id), fault)
         IN  [item |-> stackItem(id, got.value), err |-> got.err]

\* Stack.Push: the stack it leaves, and the item and the error of the call
PushFn(s, value, fault) ==
    LET item == stackItem(s.head + 1, value)
    IN  IF fault THEN [stack |-> s, item |-> item, err |-> ErrStorage]
        ELSE [stack |-> [s EXCEPT !.db = dbPut(s.db, item.Key, value), !.head = @ + 1],
              item |-> item,
              err |-> ErrNone]

\* Pop that takes the oldest item, as a queue does.
PopFn_Oldest(s, getFault, delFault) ==
    LET got == getItemByID(s, s.tail + 1, getFault)
    IN  IF got.err # ErrNone THEN [stack |-> s, item |-> got.item, err |-> got.err]
        ELSE IF delFault THEN [stack |-> s, item |-> got.item, err |-> ErrStorage]
        ELSE [stack |-> [s EXCEPT !.db = dbDelete(s.db, got.item.Key), !.tail = @ + 1],
              item |-> got.item,
              err |-> ErrNone]

\* Stack.Pop
PopFn(s, getFault, delFault) ==
    LET got == getItemByID(s, s.head, getFault)
    IN  IF got.err # ErrNone THEN [stack |-> s, item |-> got.item, err |-> got.err]
        ELSE IF delFault THEN [stack |-> s, item |-> got.item, err |-> ErrStorage]
        ELSE [stack |-> [s EXCEPT !.db = dbDelete(s.db, got.item.Key), !.head = @ - 1],
              item |-> got.item,
              err |-> ErrNone]

Called(op, r) == [op |-> op, arg |-> <<>>, item |-> r.item, err |-> r.err]

Push ==
    /\ stackLog.pushes < MaxPushes
    /\ \E value \in Values, fault \in Faults :
        LET r == PushFn(stack, value, fault)
        IN  /\ stack' = r.stack
            /\ stackLog' = IF r.err = ErrNone
                            THEN [live |-> Append(stackLog.live, r.item),
                                  pushes |-> stackLog.pushes + 1,
                                  pops |-> stackLog.pops,
                                  last |-> Called("Push", r)]
                            ELSE [stackLog EXCEPT !.last = Called("Push", r)]
    /\ UNCHANGED <<order, levels, curLevel, db, last, scenario, goroutines>>

Pop ==
    /\ \E fault \in ReadDeleteFaults :
        LET r == PopFn(stack, fault = "get", fault = "delete")
        IN  /\ stack' = r.stack
            /\ stackLog' = IF r.err = ErrNone
                            THEN [live |-> SubSeq(stackLog.live, 1, Len(stackLog.live) - 1),
                                  pushes |-> stackLog.pushes,
                                  pops |-> stackLog.pops + 1,
                                  last |-> Called("Pop", r)]
                            ELSE [stackLog EXCEPT !.last = Called("Pop", r)]
    /\ UNCHANGED <<order, levels, curLevel, db, last, scenario, goroutines>>

\* Stack.Peek
StackPeek ==
    /\ \E fault \in Faults :
            stackLog' = [stackLog EXCEPT
                            !.last = Called("Peek", getItemByID(stack, stack.head, fault))]
    /\ UNCHANGED <<order, levels, curLevel, db, last, scenario, goroutines, stack>>

\* Stack.Close, then OpenStack on the same directory
StackReopen ==
    /\ stack' = stackInit(stack.db)
    /\ stackLog' = [stackLog EXCEPT !.last = Opened]
    /\ UNCHANGED <<order, levels, curLevel, db, last, scenario, goroutines>>

NextStack ==
    \/ Push
    \/ Pop
    \/ StackPeek
    \/ StackReopen

SpecStack == Init /\ [][NextStack]_vars

\* ------------------------------------------------ goroutines and the lock
\* Each method is the steps of one goroutine t: the step that takes the lock
\* (pq.Lock() or pq.RLock(), which waits until it can), the steps of the
\* body, and the deferred pq.Unlock() or pq.RUnlock(). The goroutines log the
\* items their Enqueue and Dequeue calls stored and removed.

\* Lock that does not wait: the method runs without taking the lock.
CanLock_Unguarded(m) == TRUE

\* sync.RWMutex: Lock waits for the writer and for every reader to leave
CanLock(m) == m.writer = 0 /\ m.readers = {}

\* sync.RWMutex: RLock waits for the writer to leave
CanRLock(m) == m.writer = 0

\* t goes on to the step at, with the locals it has there
Goto(t, at) == threads' = [threads EXCEPT ![t] = at]

Lock(t) == CanLock(rw) /\ rw' = [rw EXCEPT !.writer = t]

RLock(t) == CanRLock(rw) /\ rw' = [rw EXCEPT !.readers = @ \cup {t}]

\* defer pq.Unlock()
Unlock(t) ==
    /\ threads[t].pc = "Unlock"
    /\ rw' = [rw EXCEPT !.writer = 0]
    /\ Goto(t, Idle)
    /\ UNCHANGED <<order, levels, curLevel, db, last, scenario, stacks>>

\* defer pq.RUnlock(): the call returns what the body left in item and err
RUnlock(t) ==
    /\ threads[t].pc = "RUnlock"
    /\ rw' = [rw EXCEPT !.readers = @ \ {t}]
    /\ Goto(t, Idle)
    /\ UNCHANGED <<order, levels, curLevel, db, last, scenario, stacks>>

\* Enqueue, line 83
EnqueueLock(t) ==
    /\ threads[t].pc = "idle"
    /\ TailSum(Priorities) < MaxConcurrent
    /\ Lock(t)
    /\ \E priority \in Priorities, value \in Values :
            Goto(t, [pc |-> "EnqueueId", priority |-> priority, value |-> value])
    /\ UNCHANGED <<order, levels, curLevel, db, last, scenario, stacks>>

\* Enqueue, lines 86 to 90: the id and the key of the item
EnqueueId(t) ==
    LET my == threads[t]
    IN  /\ my.pc = "EnqueueId"
        /\ Goto(t, [pc |-> "EnqueuePut",
                    item |-> Item(my.priority, levels[my.priority].tail + 1, my.value)])
        /\ UNCHANGED <<order, levels, curLevel, db, last, scenario, rw, stacks>>

\* Enqueue, lines 93 to 102: the put, and on success the tail and the cursor
EnqueuePut(t) ==
    LET item == threads[t].item
    IN  /\ threads[t].pc = "EnqueuePut"
        /\ \E fault \in Faults :
            IF fault
            THEN UNCHANGED <<levels, curLevel, db, enqLog>>
            ELSE /\ db' = dbPut(db, item.Key, item.Value)
                 /\ levels' = [levels EXCEPT ![item.Priority].tail = @ + 1]
                 /\ curLevel' = IF cmpAsc(order, curLevel, item.Priority)
                                   \/ cmpDesc(order, curLevel, item.Priority)
                                THEN item.Priority ELSE curLevel
                 /\ enqLog' = Append(enqLog, item)
        /\ Goto(t, [pc |-> "Unlock"])
        /\ UNCHANGED <<order, last, phase, deqLog, rw, stacks>>

\* Dequeue, line 109
DequeueLock(t) ==
    /\ threads[t].pc = "idle"
    /\ Lock(t)
    /\ Goto(t, [pc |-> "DequeueBody"])
    /\ UNCHANGED <<order, levels, curLevel, db, last, scenario, stacks>>

\* Dequeue, lines 113 to 126
DequeueBody(t) ==
    /\ threads[t].pc = "DequeueBody"
    /\ \E fault \in ReadDeleteFaults :
        LET r == DequeueFn(order, levels, curLevel, db, fault = "get", fault = "delete")
        IN  /\ levels' = r.levels
            /\ curLevel' = r.curLevel
            /\ db' = r.db
            /\ deqLog' = IF r.err = ErrNone THEN Append(deqLog, r.item) ELSE deqLog
    /\ Goto(t, [pc |-> "Unlock"])
    /\ UNCHANGED <<order, last, phase, enqLog, rw, stacks>>

\* DequeueByPriority, line 132
DequeueByPriorityLock(t) ==
    /\ threads[t].pc = "idle"
    /\ Lock(t)
    /\ \E priority \in Priorities :
            Goto(t, [pc |-> "DequeueByPriorityBody", priority |-> priority])
    /\ UNCHANGED <<order, levels, curLevel, db, last, scenario, stacks>>

\* DequeueByPriority, lines 136 to 149
DequeueByPriorityBody(t) ==
    /\ threads[t].pc = "DequeueByPriorityBody"
    /\ \E fault \in ReadDeleteFaults :
        LET r == DequeueByPriorityFn(levels, curLevel, db, threads[t].priority,
                                     fault = "get", fault = "delete")
        IN  /\ levels' = r.levels
            /\ curLevel' = r.curLevel
            /\ db' = r.db
            /\ deqLog' = IF r.err = ErrNone THEN Append(deqLog, r.item) ELSE deqLog
    /\ Goto(t, [pc |-> "Unlock"])
    /\ UNCHANGED <<order, last, phase, enqLog, rw, stacks>>

\* Update, line 190, of an item that is in the queue when the lock is taken
UpdateLock(t) ==
    /\ threads[t].pc = "idle"
    /\ Lock(t)
    /\ \E priority \in Priorities, id \in 1 .. MaxConcurrent, newValue \in Values :
        /\ InQueue(priority, id)
        /\ Goto(t, [pc |-> "UpdateBody",
                    item |-> Item(priority, id, db[generateKey(priority, id)]),
                    newValue |-> newValue])
    /\ UNCHANGED <<order, levels, curLevel, db, last, scenario, stacks>>

\* Update, lines 192 to 193
UpdateBody(t) ==
    /\ threads[t].pc = "UpdateBody"
    /\ \E fault \in Faults :
            db' = UpdateFn(db, threads[t].item, threads[t].newValue, fault).db
    /\ Goto(t, [pc |-> "Unlock"])
    /\ UNCHANGED <<order, levels, curLevel, last, scenario, rw, stacks>>

\* PeekByOffset and PeekByPriorityID write no field of the queue; what they
\* return is PeekByOffsetFn and getItemByPriorityID of the state they run in.

\* PeekByOffset, line 162
PeekByOffsetRLock(t) ==
    /\ threads[t].pc = "idle"
    /\ RLock(t)
    /\ Goto(t, [pc |-> "PeekByOffsetBody"])
    /\ UNCHANGED <<order, levels, curLevel, db, last, scenario, stacks>>

\* PeekByOffset, lines 166 to 176
PeekByOffsetBody(t) ==
    /\ threads[t].pc = "PeekByOffsetBody"
    /\ \A offset \in 0 .. MaxOffset, fault \in Faults :
        PeekByOffsetFn(order, levels, curLevel, db, offset, fault).err \in Errors
    /\ Goto(t, [pc |-> "RUnlock"])
    /\ UNCHANGED <<order, levels, curLevel, db, last, scenario, rw, stacks>>

\* PeekByPriorityID, line 182
PeekByPriorityIDRLock(t) ==
    /\ threads[t].pc = "idle"
    /\ RLock(t)
    /\ Goto(t, [pc |-> "PeekByPriorityIDBody"])
    /\ UNCHANGED <<order, levels, curLevel, db, last, scenario, stacks>>

\* PeekByPriorityID, line 184
PeekByPriorityIDBody(t) ==
    /\ threads[t].pc = "PeekByPriorityIDBody"
    /\ \A priority \in Priorities, id \in 0 .. (MaxConcurrent + 1), fault \in Faults :
        getItemByPriorityID(levels, db, priority, id, fault).err \in Errors
    /\ Goto(t, [pc |-> "RUnlock"])
    /\ UNCHANGED <<order, levels, curLevel, db, last, scenario, rw, stacks>>

\* Peek, line 154
PeekRLock(t) ==
    /\ threads[t].pc = "idle"
    /\ RLock(t)
    /\ Goto(t, [pc |-> "NextCheck"])
    /\ UNCHANGED <<order, levels, curLevel, db, last, scenario, stacks>>

\* getNextItem as Peek runs it, a step for each read and each write of
\* pq.curLevel. The loop of lines 313 to 317 is stepped at the levels that
\* hold items (visit, those still ahead): at an empty level its test fails
\* whatever curLevel is.

\* where the loop goes with the levels left to visit
LoopOrStill(visit) ==
    IF visit = {} THEN [pc |-> "NextStill"] ELSE [pc |-> "NextTest", visit |-> visit]

\* line 309
NextCheck(t) ==
    /\ threads[t].pc = "NextCheck"
    /\ Goto(t, IF length(levels[curLevel]) = 0 THEN [pc |-> "NextReset"]
               ELSE [pc |-> "NextGet"])
    /\ UNCHANGED <<order, levels, curLevel, db, last, scenario, rw, stacks>>

\* line 311
NextReset(t) ==
    /\ threads[t].pc = "NextReset"
    /\ curLevel' = resetCurrentLevel(order, curLevel)
    /\ Goto(t, LoopOrStill(NonEmpty(levels)))
    /\ UNCHANGED <<order, levels, db, last, scenario, rw, stacks>>

\* line 314, at the next level that holds items
NextTest(t) ==
    /\ threads[t].pc = "NextTest"
    /\ LET i == Lowest(threads[t].visit)
       IN  Goto(t, IF cmpAsc(order, curLevel, i) \/ cmpDesc(order, curLevel, i)
                   THEN [pc |-> "NextSet", visit |-> threads[t].visit]
                   ELSE LoopOrStill(threads[t].visit \ {i}))
    /\ UNCHANGED <<order, levels, curLevel, db, last, scenario, rw, stacks>>

\* line 315
NextSet(t) ==
    /\ threads[t].pc = "NextSet"
    /\ curLevel' = Lowest(threads[t].visit)
    /\ Goto(t, LoopOrStill(threads[t].visit \ {curLevel'}))
    /\ UNCHANGED <<order, levels, db, last, scenario, rw, stacks>>

\* lines 321 to 323
NextStill(t) ==
    /\ threads[t].pc = "NextStill"
    /\ Goto(t, IF length(levels[curLevel]) = 0
               THEN [pc |-> "RUnlock", op |-> "Peek", item |-> NoItem, err |-> ErrEmpty]
               ELSE [pc |-> "NextGet"])
    /\ UNCHANGED <<order, levels, curLevel, db, last, scenario, rw, stacks>>

\* line 327, the first argument: pq.curLevel
NextGet(t) ==
    /\ threads[t].pc = "NextGet"
    /\ Goto(t, [pc |-> "NextGetID", priority |-> curLevel])
    /\ UNCHANGED <<order, levels, curLevel, db, last, scenario, rw, stacks>>

\* line 327, the second argument, pq.levels[pq.curLevel].head+1, and the call
NextGetID(t) ==
    /\ threads[t].pc = "NextGetID"
    /\ \E fault \in Faults :
        LET r == getItemByPriorityID(levels, db, threads[t].priority,
                                     levels[curLevel].head + 1, fault)
        IN  Goto(t, [pc |-> "RUnlock", op |-> "Peek", item |-> r.item, err |-> r.err])
    /\ UNCHANGED <<order, levels, curLevel, db, last, scenario, rw, stacks>>

\* The goroutines calling the methods that take the lock.
NextThreads ==
    \E t \in Threads :
        \/ EnqueueLock(t) \/ EnqueueId(t) \/ EnqueuePut(t)
        \/ DequeueLock(t) \/ DequeueBody(t)
        \/ DequeueByPriorityLock(t) \/ DequeueByPriorityBody(t)
        \/ UpdateLock(t) \/ UpdateBody(t)
        \/ Unlock(t)
        \/ PeekRLock(t) \/ NextCheck(t) \/ NextReset(t) \/ NextTest(t) \/ NextSet(t)
        \/ NextStill(t) \/ NextGet(t) \/ NextGetID(t)
        \/ PeekByOffsetRLock(t) \/ PeekByOffsetBody(t)
        \/ PeekByPriorityIDRLock(t) \/ PeekByPriorityIDBody(t)
        \/ RUnlock(t)

SpecThreads == Init /\ [][NextThreads]_vars

\* ---------------------------------------------- Length and the writers
\* Length takes no lock (lines 203 to 210): its loop reads the tail and the
\* head of each level in turn while other goroutines run Enqueue, Dequeue and
\* DequeueByPriority, each of them whole, as the exclusive lock makes them.
\* The loop is stepped at the levels the callers use; every other level is
\* never written and adds 0. length is kept as an integer: a difference the
\* uint64 arithmetic wraps is congruent to it modulo 2^64, and so equal to a
\* count of items only if the integer is. seen is the total of every state
\* the queue has been in since the call started.
Observe(ths, total) ==
    [t \in Threads |-> IF "seen" \in DOMAIN ths[t]
                       THEN [ths[t] EXCEPT !.seen = @ \cup {total}]
                       ELSE ths[t]]

\* where the loop of Length goes with the levels left to visit
LengthLoop(visit, sum, seen) ==
    IF visit = {} THEN [pc |-> "LengthReturn", length |-> sum, seen |-> seen]
    ELSE [pc |-> "LengthTail", visit |-> visit, length |-> sum, seen |-> seen]

\* line 203: one goroutine at a time calls Length, the others are the writers
LengthCall(t) ==
    /\ \A u \in Threads : threads[u].pc = "idle"
    /\ Goto(t, LengthLoop(Priorities, 0, {Length(levels)}))
    /\ UNCHANGED <<order, levels, curLevel, db, last, scenario, rw, stacks>>

\* lines 205, 206 and 32: pl.tail of the next level
LengthTail(t) ==
    LET my == threads[t]
    IN  /\ my.pc = "LengthTail"
        /\ Goto(t, [pc |-> "LengthHead", visit |-> my.visit, length |-> my.length,
                    tail |-> levels[Lowest(my.visit)].tail, seen |-> my.seen])
        /\ UNCHANGED <<order, levels, curLevel, db, last, scenario, rw, stacks>>

\* lines 32 and 206: pl.head, and the sum
LengthHead(t) ==
    LET my == threads[t]
        i == Lowest(my.visit)
    IN  /\ my.pc = "LengthHead"
        /\ Goto(t, LengthLoop(my.visit \ {i}, my.length + (my.tail - levels[i].head), my.seen))
        /\ UNCHANGED <<order, levels, curLevel, db, last, scenario, rw, stacks>>

\* line 209
LengthReturn(t) ==
    /\ threads[t].pc = "LengthReturn"
    /\ Goto(t, Idle)
    /\ UNCHANGED <<order, levels, curLevel, db, last, scenario, rw, stacks>>

\* a call of another goroutine that leaves the queue as r
Written(r) ==
    /\ levels' = r.levels
    /\ curLevel' = r.curLevel
    /\ db' = r.db
    /\ threads' = Observe(threads, Length(r.levels))
    /\ UNCHANGED <<order, last, scenario, rw, stacks>>

WriterEnqueue ==
    /\ TailSum(Priorities) < MaxConcurrent
    /\ \E priority \in Priorities, value \in Values :
            Written(EnqueueFn(order, levels, curLevel, db, priority, value, FALSE))

WriterDequeue == Written(DequeueFn(order, levels, curLevel, db, FALSE, FALSE))

WriterDequeueByPriority ==
    \E priority \in Priorities :
        Written(DequeueByPriorityFn(levels, curLevel, db, priority, FALSE, FALSE))

NextLength ==
    \/ WriterEnqueue
    \/ WriterDequeue
    \/ WriterDequeueByPriority
    \/ \E t \in Threads :
        \/ LengthCall(t)
        \/ LengthTail(t)
        \/ LengthHead(t)
        \/ LengthReturn(t)

SpecLength == Init /\ [][NextLength]_vars

\* ------------------------------------------------------------ what follows
\* The items successive Dequeue calls return from a queue, storage working,
\* up to the first call that fails.
RECURSIVE DrainOrder(_, _, _, _)
DrainOrder(ord, lv, cur, store) ==
    LET r == DequeueFn(ord, lv, cur, store, FALSE, FALSE)
    IN  IF r.err # ErrNone THEN <<>>
        ELSE <<r.item>> \o DrainOrder(ord, r.levels, r.curLevel, r.db)

Keys(items) == [n \in 1 .. Len(items) |-> <<items[n].Priority, items[n].ID>>]

\* ------------------------------------------------------------------ claims

\* The enqueued items in the order the queue is to return them: level by
\* level from the most important one, each level in the order of its calls.
RECURSIVE ByPriority(_, _)
ByPriority(log, ps) ==
    IF ps = {} THEN <<>>
    ELSE LET p == IF order = ASC THEN CHOOSE m \in ps : \A o \in ps : m <= o
                  ELSE CHOOSE m \in ps : \A o \in ps : m >= o
         IN  SelectSeq(log, LAMBDA it : it.Priority = p) \o ByPriority(log, ps \ {p})

Expected == ByPriority(enqLog, {enqLog[n].Priority : n \in 1 .. Len(enqLog)})

\* C1: Enqueue calls followed by Dequeue calls until the queue is empty return
\* the enqueued items most important level first (ASC: lowest priority value,
\* DESC: highest) and, within a level, in the order they were enqueued.
C1_PriorityThenFifo ==
    /\ phase \in {"deq", "done"} =>
            /\ Len(deqLog) <= Len(enqLog)
            /\ deqLog = SubSeq(Expected, 1, Len(deqLog))
    /\ phase = "done" => Len(deqLog) = Len(enqLog)

\* a drain of three items of two levels that came out in another order than
\* they went in
C1_Witness ==
    /\ phase = "done"
    /\ Len(deqLog) = 3
    /\ deqLog # enqLog
    /\ deqLog[1].Priority # deqLog[3].Priority
    /\ \E n \in 1 .. 2 : deqLog[n].Priority = deqLog[n + 1].Priority

\* C2: closing and reopening the queue keeps Length() and the items that
\* successive Dequeue calls return, in their order.
C2_ReopenKeepsQueue ==
    [][last'.op = "Open" =>
        /\ Length(levels') = Length(levels)
        /\ DrainOrder(order, levels', curLevel', db') = DrainOrder(order, levels, curLevel, db)]_vars

\* a reopened queue that holds items on several levels, one of them behind
\* a dequeued item
C2_Witness ==
    /\ last.op = "Open"
    /\ Cardinality(NonEmpty(levels)) >= 2
    /\ \E p \in NonEmpty(levels) : levels[p].head > 0

\* C3: PeekByOffset(offset) with offset < Length() returns the item that the
\* (offset+1)-th of successive Dequeue calls returns.
C3_PeekByOffsetIsNthDequeue ==
    \A offset \in 0 .. MaxOffset :
        offset < Length(levels) =>
            LET r == PeekByOffsetFn(order, levels, curLevel, db, offset, FALSE)
                drain == DrainOrder(order, levels, curLevel, db)
            IN  r.err = ErrNone /\ r.item = drain[offset + 1]

\* The last call was a Dequeue whose read worked and whose delete failed.
DeleteFailed ==
    /\ last.op = "Dequeue"
    /\ last.err = ErrStorage
    /\ last.item # NoItem
    /\ last.item.Value # NoValue

\* C4 as claimed: a Dequeue whose delete fails changes no head, no tail, not
\* the stored keys and not curLevel.
C4_DeleteFailureChangesNothing ==
    [][DeleteFailed' => levels' = levels /\ db' = db /\ curLevel' = curLevel]_vars

\* C4: a Dequeue whose delete fails returns the item with the error, changes
\* no head and no tail and leaves the key stored; curLevel stays unless the
\* level under it was empty, and is then the level of the returned item; a
\* Dequeue that follows with the storage working returns the same item.
C4_DeleteFailureKeepsItem ==
    [][/\ DeleteFailed' =>
            /\ levels' = levels
            /\ db' = db
            /\ last'.item.Key \in DOMAIN db'
            /\ length(levels[curLevel]) > 0 => curLevel' = curLevel
            /\ curLevel' = last'.item.Priority
            /\ LET again == DequeueFn(order, levels', curLevel', db', FALSE, FALSE)
               IN  again.err = ErrNone /\ again.item = last'.item
       /\ (DeleteFailed /\ last'.op = "Dequeue" /\ last'.err = ErrNone) =>
            last'.item = last.item]_vars

\* a failed delete on a queue of several items, after the returned item's
\* level became the cursor
C4_Witness ==
    /\ DeleteFailed
    /\ curLevel = last.item.Priority
    /\ Length(levels) >= 2
    /\ levels[curLevel].head > 0

\* C5: an Enqueue whose put fails changes no head, tail or curLevel, nor
\* Length(); the id it computed is tail+1 of its level, which no other call
\* on the open queue changes, and which the next successful Enqueue on the
\* level is assigned.
C5_FailedEnqueueConsumesNoId ==
    [][LET p == last'.item.Priority
       IN  /\ (last'.op = "Enqueue" /\ last'.err # ErrNone) =>
                /\ levels' = levels
                /\ curLevel' = curLevel
                /\ db' = db
                /\ Length(levels') = Length(levels)
                /\ last'.item.ID = levels'[p].tail + 1
           /\ (last'.op = "Enqueue" /\ last'.err = ErrNone) =>
                /\ last'.item.ID = levels[p].tail + 1
                /\ levels'[p].tail = last'.item.ID
                /\ \A q \in Levels \ {p} : levels'[q].tail = levels[q].tail
           /\ last'.op \notin {"Enqueue", "Open"} =>
                \/ levels' = levels
                \/ \A q \in Levels : levels'[q].tail = levels[q].tail
           /\ (/\ last.op = "Enqueue" /\ last.err # ErrNone
               /\ last'.op = "Enqueue" /\ last'.err = ErrNone
               /\ last.item.Priority = p) =>
                last'.item.ID = last.item.ID]_vars

\* a failed Enqueue on a level that has handed out ids before
C5_Witness ==
    /\ last.op = "Enqueue"
    /\ last.err = ErrStorage
    /\ last.item.ID > 1
    /\ Length(levels) > 0

\* C6: DequeueByPriority(p) on a non-empty level p fails only on a storage
\* failure; when it succeeds it returns and removes the item with id head+1
\* of p, advances the head of p by one and changes no other head, no tail and
\* not curLevel.
C6_DequeueByPriorityFrame ==
    [][last'.op = "DequeueByPriority" =>
        LET p == last'.arg[1]
            key == generateKey(p, levels[p].head + 1)
        IN  length(levels[p]) > 0 =>
                /\ last'.err \in {ErrNone, ErrStorage}
                /\ last'.err = ErrNone =>
                    /\ last'.item = Item(p, levels[p].head + 1, db[key])
                    /\ db' = dbDelete(db, key)
                    /\ key \in DOMAIN db
                    /\ levels' = [levels EXCEPT ![p].head = @ + 1]
                    /\ curLevel' = curLevel]_vars

\* a DequeueByPriority that served another level than the non-empty one
\* under the cursor
C6_Witness ==
    /\ last.op = "DequeueByPriority"
    /\ last.err = ErrNone
    /\ last.arg[1] # curLevel
    /\ length(levels[curLevel]) > 0

\* C7: a successful Update of an item in the queue makes
\* PeekByPriorityID(priority, id) return the new value and changes no head,
\* tail, curLevel, Length(), other stored value, nor the (priority, id) order
\* of the Dequeue calls to come.
C7_UpdateFrame ==
    [][(last'.op = "Update" /\ last'.err = ErrNone /\ InQueue(last'.arg[1], last'.arg[2])) =>
        LET p == last'.arg[1]
            id == last'.arg[2]
            peek == getItemByPriorityID(levels', db', p, id, FALSE)
        IN  /\ peek.err = ErrNone
            /\ peek.item = Item(p, id, last'.arg[3])
            /\ levels' = levels
            /\ curLevel' = curLevel
            /\ Length(levels') = Length(levels)
            /\ DOMAIN db' = DOMAIN db
            /\ \A k \in DOMAIN db \ {generateKey(p, id)} : db'[k] = db[k]
            /\ \/ db' = db
               \/ Keys(DrainOrder(order, levels', curLevel', db'))
                    = Keys(DrainOrder(order, levels, curLevel, db))]_vars

\* an Update of the second item of a level, on a queue of several levels
C7_Witness ==
    /\ last.op = "Update"
    /\ last.err = ErrNone
    /\ last.item.ID = levels[last.item.Priority].head + 2
    /\ db[last.item.Key] = last.item.Value
    /\ Cardinality(NonEmpty(levels)) >= 2

\* C8: Dequeue on a queue whose levels are all empty fails with ErrEmpty,
\* changes no head and no tail, and leaves curLevel at 255 (ASC) or 0 (DESC).
C8_DequeueOnEmpty ==
    [][(last'.op = "Dequeue" /\ Length(levels) = 0) =>
        /\ last'.err = ErrEmpty
        /\ last'.item = NoItem
        /\ levels' = levels
        /\ db' = db
        /\ curLevel' = IF order = ASC THEN 255 ELSE 0]_vars

\* a Dequeue on a queue that was used and drained
C8_Witness ==
    /\ last.op = "Dequeue"
    /\ last.err = ErrEmpty
    /\ curLevel = (IF order = ASC THEN 255 ELSE 0)
    /\ \E p \in Priorities \ {0, 255} : levels[p].head > 0 /\ length(levels[p]) = 0

\* C9: PeekByOffset(offset) with offset >= Length() fails with ErrOutOfBounds.
C9_PeekBeyondLengthOutOfBounds ==
    \A offset \in 0 .. MaxOffset, fault \in Faults :
        offset >= Length(levels) =>
            PeekByOffsetFn(order, levels, curLevel, db, offset, fault).err = ErrOutOfBounds

\* The last call removed or rewrote the item stored under key.
Touched(key) ==
    /\ last.op \in {"Dequeue", "DequeueByPriority", "Update"}
    /\ last.err = ErrNone
    /\ last.item.Key = key

\* C10: after a successful Enqueue, PeekByPriorityID(priority, id) returns the
\* item with the value written, and goes on returning it over every call that
\* does not dequeue or update that item, a reopen included.
C10_PeekReturnsWritten ==
    [][/\ (last'.op = "Enqueue" /\ last'.err = ErrNone) =>
            getItemByPriorityID(levels', db', last'.arg[1], last'.item.ID, FALSE)
                = [item |-> Item(last'.arg[1], levels[last'.arg[1]].tail + 1, last'.arg[2]),
                   err |-> ErrNone]
       /\ \/ levels' = levels /\ db' = db
          \/ \A p \in Priorities, id \in 1 .. MaxEnqueued :
                LET before == getItemByPriorityID(levels, db, p, id, FALSE)
                IN  (before.err = ErrNone /\ ~Touched(generateKey(p, id))') =>
                        getItemByPriorityID(levels', db', p, id, FALSE) = before]_vars

\* items still readable by priority and id after another item of the same
\* level was dequeued
C10_Witness ==
    /\ last.op \in {"Dequeue", "DequeueByPriority"}
    /\ last.err = ErrNone
    /\ Length(levels) >= 2
    /\ \E id \in 1 .. MaxEnqueued :
          getItemByPriorityID(levels, db, last.item.Priority, id, FALSE).err = ErrNone

\* C11: two Peek calls in a row return the same item, also when the first had
\* to move the cursor off a drained level, and a Dequeue that follows a Peek
\* returns the item the Peek returned; on an empty queue both fail alike.
C11_PeekTwiceSameItem ==
    [][/\ (last.op = "Peek" /\ last.err \in {ErrNone, ErrEmpty} /\ last'.op = "Peek"
           /\ last'.err # ErrStorage) =>
            /\ last'.err = last.err
            /\ last'.item = last.item
       /\ (last.op = "Peek" /\ last.err = ErrNone /\ last'.op = "Dequeue"
           /\ last'.err \in {ErrNone, ErrEmpty}) =>
            /\ last'.err = ErrNone
            /\ last'.item = last.item
       /\ (last'.op = "Peek" /\ last'.err = ErrNone) =>
            LET again == getNextItem(order, levels', curLevel', db', FALSE)
                then == DequeueFn(order, levels', curLevel', db', FALSE, FALSE)
            IN  /\ again.err = ErrNone /\ again.item = last'.item
                /\ then.err = ErrNone /\ then.item = last'.item]_vars

\* a Peek that returned an item of a queue of several, the cursor past a
\* more important level that was drained
C11_Witness ==
    /\ last.op = "Peek"
    /\ last.err = ErrNone
    /\ curLevel = last.item.Priority
    /\ Length(levels) >= 2
    /\ \E p \in Priorities :
          /\ cmpAsc(order, curLevel, p) \/ cmpDesc(order, curLevel, p)
          /\ levels[p].head > 0

\* t is between pq.Lock() and pq.Unlock()
InWriter(t) ==
    threads[t].pc \in {"EnqueueId", "EnqueuePut", "DequeueBody", "DequeueByPriorityBody",
                       "UpdateBody", "Unlock"}

\* t is between pq.RLock() and pq.RUnlock()
InReader(t) ==
    threads[t].pc \in {"NextCheck", "NextReset", "NextTest", "NextSet", "NextStill",
                       "NextGet", "NextGetID", "PeekByOffsetBody", "PeekByPriorityIDBody",
                       "RUnlock"}

LogKeys(log) == {log[n].Key : n \in 1 .. Len(log)}

\* C12: while a goroutine is inside Enqueue, Dequeue, DequeueByPriority or
\* Update, no other goroutine is inside one of them or inside Peek,
\* PeekByOffset or PeekByPriorityID; the Enqueue calls of the goroutines get
\* pairwise distinct (priority, id), and every item enqueued and not dequeued
\* has its own key in storage.
C12_WritersExclusive ==
    /\ \A t \in Threads, u \in Threads :
            (t # u /\ InWriter(t)) => ~InWriter(u) /\ ~InReader(u)
    /\ \A i \in 1 .. Len(enqLog), j \in 1 .. Len(enqLog) :
            i # j => <<enqLog[i].Priority, enqLog[i].ID>> # <<enqLog[j].Priority, enqLog[j].ID>>
    /\ LogKeys(enqLog) \ LogKeys(deqLog) \subseteq DOMAIN db
    /\ Cardinality(DOMAIN db) = Len(enqLog) - Len(deqLog)

\* a goroutine inside Enqueue with the id after the one another Enqueue got
\* on the same level, while the other goroutine is in no call
C12_Witness ==
    \E t \in Threads :
        /\ threads[t].pc = "EnqueuePut"
        /\ threads[t].item.ID = 2
        /\ Len(enqLog) = 1
        /\ enqLog[1].Priority = threads[t].item.Priority
        /\ \A u \in Threads \ {t} : threads[u].pc = "idle"

\* the most important of the levels that hold items
MostImportant(ord, lv) ==
    IF ord = ASC THEN Lowest(NonEmpty(lv)) ELSE Highest(NonEmpty(lv))

\* no level that holds items is more important than cur: none below it in
\* ASC order, none above it in DESC order
CursorLeads(ord, lv, cur) ==
    \A i \in NonEmpty(lv) : IF ord = ASC THEN i >= cur ELSE i <= cur

\* t is about to return from Peek
PeekReturns(t) ==
    /\ threads[t].pc = "RUnlock"
    /\ "op" \in DOMAIN threads[t]
    /\ threads[t].op = "Peek"

\* C13: a Peek that runs together with other Peek calls, on a queue that
\* holds items, returns the item with id head+1 of the most important
\* non-empty level (or fails on the storage, never with ErrEmpty or
\* ErrOutOfBounds); and when every goroutine has returned, no non-empty level
\* is more important than curLevel.
C13_ConcurrentPeeksAgree ==
    /\ \A t \in Threads :
            (PeekReturns(t) /\ Length(levels) > 0) =>
                LET best == MostImportant(order, levels)
                IN  /\ threads[t].err \in {ErrNone, ErrStorage}
                    /\ threads[t].item.Priority = best
                    /\ threads[t].item.ID = levels[best].head + 1
    /\ (\A t \in Threads : threads[t].pc = "idle") => CursorLeads(order, levels, curLevel)

\* C14: a Length call that runs while other goroutines enqueue and dequeue
\* returns the total number of items of a state the queue was in between
\* the call's start and its return.
C14_LengthOfSomeState ==
    \A t \in Threads :
        threads[t].pc = "LengthReturn" => threads[t].length \in threads[t].seen

\* the ids of level p that have a key in storage
StoredIds(store, p) ==
    {keyToID(SubSeq(k, 3, 10)) : k \in PrefixKeys(store, generatePrefix(p))}

\* C15: for every level, the ids that have a key in storage are exactly the
\* ids in (head, tail].
C15_KeysAreHeadToTail ==
    \A p \in Levels : StoredIds(db, p) = (levels[p].head + 1) .. levels[p].tail

\* C16: after open and after every call, no level that holds items is more
\* important than curLevel (ASC: none below it, DESC: none above it); and a
\* successful Dequeue has returned the item with id head+1 of the most
\* important non-empty level: the head of the item's level is now its id, and
\* no level more important than the item's holds items.
C16_CursorLeads ==
    /\ CursorLeads(order, levels, curLevel)
    /\ (last.op = "Dequeue" /\ last.err = ErrNone) =>
            /\ last.item.ID = levels[last.item.Priority].head
            /\ last.item.Key \notin DOMAIN db
            /\ CursorLeads(order, levels, last.item.Priority)

\* a Dequeue that served a level after a more important one was drained,
\* and left items behind
C16_Witness ==
    /\ last.op = "Dequeue"
    /\ last.err = ErrNone
    /\ last.item.Priority = curLevel
    /\ Length(levels) >= 1
    /\ \E p \in Priorities :
          /\ cmpAsc(order, curLevel, p) \/ cmpDesc(order, curLevel, p)
          /\ levels[p].head > 0
          /\ length(levels[p]) = 0

\* C17: Peek, PeekByOffset and PeekByPriorityID change no head, no tail, not
\* Length(), not the storage contents and not curLevel.
C17_PeeksAreReadOnly ==
    [][last'.op \in {"Peek", "PeekByOffset", "PeekByPriorityID"} =>
        /\ levels' = levels
        /\ db' = db
        /\ curLevel' = curLevel]_vars

\* C18: after open, every level with a stored key has head = its smallest
\* stored id - 1 and tail = its largest stored id, every other level has
\* head = tail = 0, and curLevel is the most important level with a stored
\* key, or 255 (ASC) or 0 (DESC) when nothing is stored.
C18_RecoveryFromStorage ==
    last.op = "Open" =>
        LET stored == {p \in Levels : StoredIds(db, p) # {}}
        IN  /\ \A p \in stored :
                    LET ids == StoredIds(db, p)
                    IN  /\ levels[p].head = (CHOOSE m \in ids : \A o \in ids : m <= o) - 1
                        /\ levels[p].tail = (CHOOSE m \in ids : \A o \in ids : m >= o)
            /\ \A p \in Levels \ stored : levels[p].head = 0 /\ levels[p].tail = 0
            /\ curLevel = IF stored = {} THEN (IF order = ASC THEN 255 ELSE 0)
                          ELSE IF order = ASC THEN Lowest(stored)
                          ELSE Highest(stored)

\* a queue reopened with two items left behind a dequeued one on a level,
\* another level having been used and drained
C18_Witness ==
    /\ last.op = "Open"
    /\ \E p \in Priorities :
          /\ levels[p].head > 0
          /\ length(levels[p]) >= 2
          /\ curLevel = p

\* C19: within a level the ids of successive successful Enqueue calls are
\* strictly increasing from 1 over the life of the queue directory, reopens
\* included, so no (priority, id) is assigned twice.
C19_IdsIncreaseForLife ==
    \A j \in 1 .. Len(enqLog) :
        LET before == {i \in 1 .. (j - 1) : enqLog[i].Priority = enqLog[j].Priority}
        IN  /\ before = {} => enqLog[j].ID = 1
            /\ \A i \in before : enqLog[i].ID < enqLog[j].ID

\* C20: a successful Stack.Pop returns the item pushed last among those not
\* popped yet; Stack.Length() is the number of pushes less the number of
\* successful pops; Pop and Peek on an empty stack fail with ErrEmpty and
\* change neither head nor tail; head is never below tail.
C20_StackIsLifo ==
    [][/\ stackLength(stack') = stackLog'.pushes - stackLog'.pops
       /\ stack'.head >= stack'.tail
       /\ (stackLog'.last.op = "Pop" /\ stackLog'.last.err = ErrNone) =>
            /\ Len(stackLog.live) > 0
            /\ stackLog'.last.item = stackLog.live[Len(stackLog.live)]
            /\ stackLog'.last.item.Key \notin DOMAIN stack'.db
       /\ (stackLog'.last.op \in {"Pop", "Peek"} /\ stackLog.pushes = stackLog.pops) =>
            /\ stackLog'.last.err = ErrEmpty
            /\ stackLog'.last.item = NoItem
            /\ stack'.head = stack.head
            /\ stack'.tail = stack.tail]_vars

\* a Pop of an item pushed over older items that stay on the stack, after
\* an earlier Pop
C20_Witness ==
    /\ stackLog.last.op = "Pop"
    /\ stackLog.last.err = ErrNone
    /\ stackLog.pops >= 2
    /\ Len(stackLog.live) >= 1
    /\ stackLog.last.item.ID = stack.head + 1

====
